---- MODULE Spec2Model ----
(***************************************************************************)
(* Model of src/kv/raft.rs: the Raft-backed key-value store.               *)
(*   - Raft   : the Store adapter that turns get/set/delete/iter_prefix    *)
(*              into commands for the consensus collaborator.              *)
(*   - State  : the state machine the collaborator drives on every         *)
(*              replica (mutate, read).                                    *)
(*   - Mutation / Read : the commands, with their derived wire encoding.   *)
(***************************************************************************)
EXTENDS Integers, Sequences, FiniteSets, TLC

(* ------------------------------ bounds -------------------------------- *)
MaxByte == 1
MaxKeyLen == 1
MaxValByte == 0
MaxValLen == 1
MaxRawLen == 1
MaxLag == 1

Bytes == 0..MaxByte
SeqsUpTo(S, n) == UNION {[1..i -> S] : i \in 0..n}
Keys == SeqsUpTo(Bytes, MaxKeyLen)
Values == SeqsUpTo(0..MaxValByte, MaxValLen)
RawCommands == SeqsUpTo(0..(MaxByte + 1), MaxRawLen)

Leader == "leader"
Follower == "follower"
Replicas == {Leader, Follower}

(* ------------------------------ results ------------------------------- *)
CodecError == "CodecError"
StoreError == "StoreError"
ConsensusErrors == {"NotLeader", "QuorumUnavailable", "Timeout"}

Ok(v) == [ok |-> TRUE, val |-> v]
Err(e) == [ok |-> FALSE, err |-> e, panic |-> FALSE]
Panic(e) == [ok |-> FALSE, err |-> e, panic |-> TRUE]

None == [some |-> FALSE]
Some(v) == [some |-> TRUE, v |-> v]
Unit == <<>>

(* ------------------------------ commands ------------------------------ *)
Delete(key) == [tag |-> "Delete", key |-> key]
Set(key, value) == [tag |-> "Set", key |-> key, value |-> value]
Get(key) == [tag |-> "Get", key |-> key]
GetPrefix(prefix) == [tag |-> "GetPrefix", key |-> prefix]

Mutations == {Delete(k) : k \in Keys} \cup {Set(k, v) : k \in Keys, v \in Values}
Reads == {Get(k) : k \in Keys} \cup {GetPrefix(k) : k \in Keys}

\* A variant of the tags in which the variants of an enum share one tag.
VariantIndexShared(tag) == 0

\* The derive assigns each variant its position in the enum declaration.
VariantIndex(tag) ==
    CASE tag = "Delete" -> 0
      [] tag = "Set" -> 1
      [] tag = "Get" -> 0
      [] tag = "GetPrefix" -> 1

(* ------------------------------ wire format --------------------------- *)
\* A byte sequence is written as its length followed by its bytes.
SerBytes(b) == <<Len(b)>> \o b

\* Reads a length-prefixed byte sequence of b starting at pos.
ReadBytes(b, pos) ==
    IF pos > Len(b) THEN [ok |-> FALSE]
    ELSE IF pos + b[pos] > Len(b) THEN [ok |-> FALSE]
    ELSE [ok |-> TRUE, val |-> SubSeq(b, pos + 1, pos + b[pos]), next |-> pos + b[pos] + 1]

SerializeMutation(m) ==
    IF m.tag = "Delete"
    THEN <<VariantIndex("Delete")>> \o SerBytes(m.key)
    ELSE <<VariantIndex("Set")>> \o SerBytes(m.key) \o SerBytes(m.value)

DeserializeMutation(b) ==
    IF Len(b) = 0 THEN Err(CodecError)
    ELSE IF b[1] = VariantIndex("Delete") THEN
        LET k == ReadBytes(b, 2) IN
        IF k.ok /\ k.next = Len(b) + 1 THEN Ok(Delete(k.val)) ELSE Err(CodecError)
    ELSE IF b[1] = VariantIndex("Set") THEN
        LET k == ReadBytes(b, 2) IN
        IF ~k.ok THEN Err(CodecError)
        ELSE LET v == ReadBytes(b, k.next) IN
             IF v.ok /\ v.next = Len(b) + 1 THEN Ok(Set(k.val, v.val)) ELSE Err(CodecError)
    ELSE Err(CodecError)

SerializeRead(r) ==
    IF r.tag = "Get"
    THEN <<VariantIndex("Get")>> \o SerBytes(r.key)
    ELSE <<VariantIndex("GetPrefix")>> \o SerBytes(r.key)

DeserializeRead(b) ==
    IF Len(b) = 0 THEN Err(CodecError)
    ELSE LET k == ReadBytes(b, 2) IN
         IF ~(k.ok /\ k.next = Len(b) + 1) THEN Err(CodecError)
         ELSE IF b[1] = VariantIndex("Get") THEN Ok(Get(k.val))
         ELSE IF b[1] = VariantIndex("GetPrefix") THEN Ok(GetPrefix(k.val))
         ELSE Err(CodecError)

\* Option<Vec<u8>>: a presence byte, then the value when present.
SerializeOption(o) == IF o.some THEN <<1>> \o SerBytes(o.v) ELSE <<0>>

DeserializeOption(b) ==
    IF Len(b) = 0 THEN Err(CodecError)
    ELSE IF b[1] = 0 THEN (IF Len(b) = 1 THEN Ok(None) ELSE Err(CodecError))
    ELSE IF b[1] = 1 THEN
        LET v == ReadBytes(b, 2) IN
        IF v.ok /\ v.next = Len(b) + 1 THEN Ok(Some(v.val)) ELSE Err(CodecError)
    ELSE Err(CodecError)

\* Vec<(Vec<u8>, Vec<u8>)>: the number of pairs, then each key and value.
RECURSIVE SerPairs(_)
SerPairs(ps) ==
    IF ps = <<>> THEN <<>>
    ELSE SerBytes(Head(ps)[1]) \o SerBytes(Head(ps)[2]) \o SerPairs(Tail(ps))

SerializePairs(ps) == <<Len(ps)>> \o SerPairs(ps)

RECURSIVE ReadPairs(_, _, _)
ReadPairs(b, pos, n) ==
    IF n = 0 THEN [ok |-> TRUE, val |-> <<>>, next |-> pos]
    ELSE LET k == ReadBytes(b, pos) IN
         IF ~k.ok THEN [ok |-> FALSE]
         ELSE LET v == ReadBytes(b, k.next) IN
              IF ~v.ok THEN [ok |-> FALSE]
              ELSE LET rest == ReadPairs(b, v.next, n - 1) IN
                   IF ~rest.ok THEN [ok |-> FALSE]
                   ELSE [ok |-> TRUE, val |-> <<(<<k.val, v.val>>)>> \o rest.val,
                         next |-> rest.next]

DeserializePairs(b) ==
    IF Len(b) = 0 THEN Err(CodecError)
    ELSE LET r == ReadPairs(b, 2, b[1]) IN
         IF r.ok /\ r.next = Len(b) + 1 THEN Ok(r.val) ELSE Err(CodecError)

(* ------------------------------ the store ----------------------------- *)
\* The content of a Store: a function from the keys present to their values.
EmptyStore == [k \in {} |-> <<>>]

StoreGet(s, key) == IF key \in DOMAIN s THEN Some(s[key]) ELSE None
StoreSet(s, key, value) ==
    [k \in (DOMAIN s) \cup {key} |-> IF k = key THEN value ELSE s[k]]
StoreDelete(s, key) == [k \in (DOMAIN s) \ {key} |-> s[k]]

\* set and delete as State calls them, on a store that may fail: fault is the
\* failure the store meets ("none" when it meets none). A failed operation
\* returns the store's error and leaves the content as it was.
TrySet(s, key, value, fault) ==
    IF fault = "none" THEN [res |-> Ok(Unit), store |-> StoreSet(s, key, value)]
    ELSE [res |-> Err(fault), store |-> s]
TryDelete(s, key, fault) ==
    IF fault = "none" THEN [res |-> Ok(Unit), store |-> StoreDelete(s, key)]
    ELSE [res |-> Err(fault), store |-> s]

IsPrefix(p, k) == Len(p) <= Len(k) /\ SubSeq(k, 1, Len(p)) = p

Min(a, b) == IF a < b THEN a ELSE b

LexLess(a, b) ==
    \E i \in 1..(Min(Len(a), Len(b)) + 1) :
        /\ \A j \in 1..(i - 1) : a[j] = b[j]
        /\ \/ i > Len(a) /\ i <= Len(b)
           \/ i <= Len(a) /\ i <= Len(b) /\ a[i] < b[i]

RECURSIVE SortedKeys(_)
SortedKeys(S) ==
    IF S = {} THEN <<>>
    ELSE LET m == CHOOSE x \in S : \A y \in S \ {x} : LexLess(x, y)
         IN <<m>> \o SortedKeys(S \ {m})

\* The pairs under a prefix, in the store's key order.
StoreIterPrefix(s, prefix) ==
    LET ks == SortedKeys({k \in DOMAIN s : IsPrefix(prefix, k)})
    IN [i \in 1..Len(ks) |-> <<ks[i], s[ks[i]]>>]

(* ------------------------------ state --------------------------------- *)
VARIABLES
    store,      \* store[r]: the content of the store owned by replica r's State
    pending,    \* committed commands the follower has not applied yet, in log order
    direct,     \* reference store: the same operations applied to a fresh store
    lastMut,    \* lastMut[k]: the most recent mutation of k in the committed log
    last,       \* the most recent call and what it returned
    codec       \* a command value on its way through the codec

vars == <<store, pending, direct, lastMut, last, codec>>

\* A State instance: the replica it lives on and the store it owns.
Inst(r) == [node |-> r, store |-> store[r]]

\* A call: who served it, its arguments, the command bytes, the failure that
\* struck it (if any), the collaborator's response and what the call returned;
\* for an adapter call also the requests it sent to the collaborator, and for
\* iter_prefix the pairs its caller has taken from the returned sequence so far.
Call(fn, node, key, value, cmd, fail, resp, out) ==
    [fn |-> fn, node |-> node, key |-> key, value |-> value, cmd |-> cmd,
     fail |-> fail, resp |-> resp, out |-> out, reqs |-> <<>>, yielded |-> <<>>]

NoCall == Call("none", Leader, <<>>, <<>>, <<>>, "none", Ok(Unit), Ok(Unit))
NoMut == [tag |-> "None", key |-> <<>>, value |-> <<>>, acked |-> FALSE]
CodecIdle ==
    [phase |-> "idle", kind |-> "Mutation", value |-> Delete(<<>>), bytes |-> <<>>,
     intact |-> TRUE, back |-> Err(CodecError)]

(* ------------------------------ State --------------------------------- *)
\* Faulty variants of State::mutate, each with a slip in one arm.
\* The Set arm stores an empty value.
StateMutateDropsValue(self, command) ==
    LET mutation == DeserializeMutation(command) IN
    IF ~mutation.ok THEN [res |-> Err(mutation.err), store |-> self.store]
    ELSE IF mutation.val.tag = "Delete"
    THEN [res |-> Ok(<<>>), store |-> StoreDelete(self.store, mutation.val.key)]
    ELSE [res |-> Ok(<<>>), store |-> StoreSet(self.store, mutation.val.key, <<>>)]

\* The Delete arm takes effect on the leader only.
StateMutateNodeDependent(self, command) ==
    LET mutation == DeserializeMutation(command) IN
    IF ~mutation.ok THEN [res |-> Err(mutation.err), store |-> self.store]
    ELSE IF mutation.val.tag = "Delete"
    THEN [res |-> Ok(<<>>),
          store |-> IF self.node = Leader
                    THEN StoreDelete(self.store, mutation.val.key) ELSE self.store]
    ELSE [res |-> Ok(<<>>),
          store |-> StoreSet(self.store, mutation.val.key, mutation.val.value)]

\* A decode failure is swallowed and reported as success.
StateMutateSwallowsError(self, command) ==
    LET mutation == DeserializeMutation(command) IN
    IF ~mutation.ok THEN [res |-> Ok(<<>>), store |-> self.store]
    ELSE IF mutation.val.tag = "Delete"
    THEN [res |-> Ok(<<>>), store |-> StoreDelete(self.store, mutation.val.key)]
    ELSE [res |-> Ok(<<>>),
          store |-> StoreSet(self.store, mutation.val.key, mutation.val.value)]

\* The Delete arm leaves the key in place.
StateMutateKeepsDeleted(self, command) ==
    LET mutation == DeserializeMutation(command) IN
    IF ~mutation.ok THEN [res |-> Err(mutation.err), store |-> self.store]
    ELSE IF mutation.val.tag = "Delete"
    THEN [res |-> Ok(<<>>), store |-> self.store]
    ELSE [res |-> Ok(<<>>),
          store |-> StoreSet(self.store, mutation.val.key, mutation.val.value)]

\* The Set arm hands back the value it replaced.
StateMutateReturnsPrevious(self, command) ==
    LET mutation == DeserializeMutation(command) IN
    IF ~mutation.ok THEN [res |-> Err(mutation.err), store |-> self.store]
    ELSE IF mutation.val.tag = "Delete"
    THEN [res |-> Ok(<<>>), store |-> StoreDelete(self.store, mutation.val.key)]
    ELSE [res |-> Ok(IF mutation.val.key \in DOMAIN self.store
                     THEN self.store[mutation.val.key] ELSE <<>>),
          store |-> StoreSet(self.store, mutation.val.key, mutation.val.value)]

\* The Delete arm removes every key that starts with the given one.
StateMutateDeletesPrefix(self, command) ==
    LET mutation == DeserializeMutation(command) IN
    IF ~mutation.ok THEN [res |-> Err(mutation.err), store |-> self.store]
    ELSE IF mutation.val.tag = "Delete"
    THEN [res |-> Ok(<<>>),
          store |-> [k \in {x \in DOMAIN self.store : ~IsPrefix(mutation.val.key, x)}
                        |-> self.store[k]]]
    ELSE [res |-> Ok(<<>>),
          store |-> StoreSet(self.store, mutation.val.key, mutation.val.value)]

\* The Delete arm rejects a key that is not in the store.
StateMutateDeleteMissingFails(self, command) ==
    LET mutation == DeserializeMutation(command) IN
    IF ~mutation.ok THEN [res |-> Err(mutation.err), store |-> self.store]
    ELSE IF mutation.val.tag = "Delete"
    THEN IF mutation.val.key \in DOMAIN self.store
         THEN [res |-> Ok(<<>>), store |-> StoreDelete(self.store, mutation.val.key)]
         ELSE [res |-> Err(StoreError), store |-> self.store]
    ELSE [res |-> Ok(<<>>),
          store |-> StoreSet(self.store, mutation.val.key, mutation.val.value)]

\* State::mutate: the result returned and the store content left behind.
StateMutate(self, command) ==
    LET mutation == DeserializeMutation(command) IN
    IF ~mutation.ok THEN [res |-> Err(mutation.err), store |-> self.store]
    ELSE IF mutation.val.tag = "Delete"
    THEN [res |-> Ok(<<>>), store |-> StoreDelete(self.store, mutation.val.key)]
    ELSE [res |-> Ok(<<>>),
          store |-> StoreSet(self.store, mutation.val.key, mutation.val.value)]

\* A variant of State::mutate that discards the result of the store's set and
\* delete and reports success.
StateMutateOnIgnoresStore(self, command, fault) ==
    LET mutation == DeserializeMutation(command) IN
    IF ~mutation.ok THEN [res |-> Err(mutation.err), store |-> self.store]
    ELSE LET done == IF mutation.val.tag = "Delete"
                     THEN TryDelete(self.store, mutation.val.key, fault)
                     ELSE TrySet(self.store, mutation.val.key, mutation.val.value, fault)
         IN [res |-> Ok(<<>>), store |-> done.store]

\* State::mutate over a store that may fail: self.store.delete(&key)? and
\* self.store.set(&key, value)? return the store's error from mutate.
StateMutateOn(self, command, fault) ==
    LET mutation == DeserializeMutation(command) IN
    IF ~mutation.ok THEN [res |-> Err(mutation.err), store |-> self.store]
    ELSE LET done == IF mutation.val.tag = "Delete"
                     THEN TryDelete(self.store, mutation.val.key, fault)
                     ELSE TrySet(self.store, mutation.val.key, mutation.val.value, fault)
         IN IF ~done.res.ok THEN [res |-> Err(done.res.err), store |-> done.store]
            ELSE [res |-> Ok(<<>>), store |-> done.store]

\* Faulty variants of State::read, each with a slip in one arm.
\* GetPrefix returns every pair of the store.
StateReadIgnoresPrefix(self, command) ==
    LET read == DeserializeRead(command) IN
    IF ~read.ok THEN Err(read.err)
    ELSE IF read.val.tag = "Get"
    THEN Ok(SerializeOption(StoreGet(self.store, read.val.key)))
    ELSE Ok(SerializePairs(StoreIterPrefix(self.store, <<>>)))

\* Get answers a missing key with an empty value.
StateReadDefaultsMissing(self, command) ==
    LET read == DeserializeRead(command) IN
    IF ~read.ok THEN Err(read.err)
    ELSE IF read.val.tag = "Get"
    THEN LET found == StoreGet(self.store, read.val.key) IN
         Ok(SerializeOption(IF found.some THEN found ELSE Some(<<>>)))
    ELSE Ok(SerializePairs(StoreIterPrefix(self.store, read.val.key)))

\* State::read: the result returned.
StateRead(self, command) ==
    LET read == DeserializeRead(command) IN
    IF ~read.ok THEN Err(read.err)
    ELSE IF read.val.tag = "Get"
    THEN Ok(SerializeOption(StoreGet(self.store, read.val.key)))
    ELSE Ok(SerializePairs(StoreIterPrefix(self.store, read.val.key)))

(* ------------------------------ collaborator -------------------------- *)
\* The operations a fresh store sees when it is called directly.
DirectApply(s, m) ==
    IF m.tag = "Set" THEN StoreSet(s, m.key, m.value) ELSE StoreDelete(s, m.key)

Recorded(m, acked) ==
    [tag |-> m.tag, key |-> m.key,
     value |-> IF m.tag = "Set" THEN m.value ELSE <<>>,
     acked |-> acked /\ m.tag = "Set"]

\* raft.mutate that commits: the command enters the log, the leader's State
\* applies it, and every other replica will apply it later, in log order. The
\* log entry remembers the leader's result and the reference content before it.
\* ops holds the operation the command stands for (none when it is no Mutation).
Commit(command, ops, acked) ==
    LET applied == StateMutate(Inst(Leader), command) IN
    /\ Len(pending) < MaxLag
    /\ store' = [store EXCEPT ![Leader] = applied.store]
    /\ pending' = Append(pending, [cmd |-> command, res |-> applied.res,
                                   before |-> direct])
    /\ direct' = IF ops = <<>> THEN direct ELSE DirectApply(direct, ops[1])
    /\ lastMut' = IF ops = <<>> THEN lastMut
                  ELSE [lastMut EXCEPT ![ops[1].key] = Recorded(ops[1], acked)]

\* What raft.mutate hands back once the command is committed and applied.
MutateResponse(command) == StateMutate(Inst(Leader), command).res

\* What raft.read hands back when the read is served (by the leader's State).
ReadResponse(command) == StateRead(Inst(Leader), command)

(* ------------------------------ Raft (the adapter) -------------------- *)
DeleteCommand(key) == SerializeMutation(Delete(key))
\* A variant of the set command that sends the key in place of the value.
SetCommandKeyAsValue(key, value) == SerializeMutation(Set(key, key))
SetCommand(key, value) == SerializeMutation(Set(key, value))
GetCommand(key) == SerializeRead(Get(key))
GetPrefixCommand(prefix) == SerializeRead(GetPrefix(prefix))

\* A variant of the adapter that sends a failed request once more.
AdapterRequestsRetry(command, resp) ==
    IF resp.ok THEN <<command>> ELSE <<command, command>>

\* The requests one adapter call sends to the collaborator, given the response
\* to the first: every handler calls self.raft.mutate or self.raft.read once.
AdapterRequests(command, resp) == <<command>>

\* An adapter call with the requests it sent.
Sent(call) == [call EXCEPT !.reqs = AdapterRequests(call.cmd, call.resp)]

\* self.raft.mutate(..)?; Ok(())
MutateOutcome(resp) == IF resp.ok THEN Ok(Unit) ELSE resp

\* Ok(deserialize(self.raft.read(..)?)?)
GetOutcome(resp) == IF resp.ok THEN DeserializeOption(resp.val) ELSE resp

\* deserialize(self.raft.read(..).unwrap()).unwrap(), then Iter::from_vec
IterPrefixOutcome(resp) ==
    IF ~resp.ok THEN Panic(resp.err)
    ELSE LET items == DeserializePairs(resp.val) IN
         IF items.ok THEN Ok(items.val) ELSE Panic(items.err)

RaftDelete(key) ==
    LET command == DeleteCommand(key) IN
    /\ \/ /\ Commit(command, <<Delete(key)>>, TRUE)
          /\ last' = Sent(Call("delete", Leader, key, <<>>, command, "none",
                          MutateResponse(command), MutateOutcome(MutateResponse(command))))
       \/ \E e \in ConsensusErrors :
            /\ last' = Sent(Call("delete", Leader, key, <<>>, command, e, Err(e),
                            MutateOutcome(Err(e))))
            /\ UNCHANGED <<store, pending, direct, lastMut>>
    /\ UNCHANGED codec

RaftGet(key) ==
    LET command == GetCommand(key) IN
    /\ \/ last' = Sent(Call("get", Leader, key, <<>>, command, "none",
                        ReadResponse(command), GetOutcome(ReadResponse(command))))
       \/ \E e \in ConsensusErrors :
            last' = Sent(Call("get", Leader, key, <<>>, command, e, Err(e), GetOutcome(Err(e))))
    /\ UNCHANGED <<store, pending, direct, lastMut, codec>>

RaftIterPrefix(prefix) ==
    LET command == GetPrefixCommand(prefix) IN
    /\ \/ last' = Sent(Call("iter_prefix", Leader, prefix, <<>>, command, "none",
                        ReadResponse(command), IterPrefixOutcome(ReadResponse(command))))
       \/ \E e \in ConsensusErrors :
            last' = Sent(Call("iter_prefix", Leader, prefix, <<>>, command, e, Err(e),
                         IterPrefixOutcome(Err(e))))
    /\ UNCHANGED <<store, pending, direct, lastMut, codec>>

\* A variant of the returned sequence that asks the collaborator again for
\* every pair it yields.
IterNextLive ==
    LET now == StoreIterPrefix(store[Leader], last.key) IN
    /\ last.fn = "iter_prefix" /\ last.out.ok
    /\ Len(last.yielded) < Len(now)
    /\ last' = [last EXCEPT !.yielded = Append(@, now[Len(@) + 1]),
                            !.reqs = Append(@, last.cmd)]
    /\ UNCHANGED <<store, pending, direct, lastMut, codec>>

\* The caller takes the next pair from the sequence iter_prefix returned:
\* Iter::from_vec(items) owns the decoded items and yields them in order.
IterNext ==
    /\ last.fn = "iter_prefix" /\ last.out.ok
    /\ Len(last.yielded) < Len(last.out.val)
    /\ last' = [last EXCEPT !.yielded = Append(@, last.out.val[Len(@) + 1])]
    /\ UNCHANGED <<store, pending, direct, lastMut, codec>>

\* A variant of set that writes to the leader's store before the commit is known.
RaftSetOptimistic(key, value) ==
    LET command == SetCommand(key, value) IN
    /\ \/ /\ Commit(command, <<Set(key, value)>>, TRUE)
          /\ last' = Sent(Call("set", Leader, key, value, command, "none",
                          MutateResponse(command), MutateOutcome(MutateResponse(command))))
       \/ \E e \in ConsensusErrors :
            /\ last' = Sent(Call("set", Leader, key, value, command, e, Err(e),
                            MutateOutcome(Err(e))))
            /\ store' = [store EXCEPT ![Leader] = StoreSet(store[Leader], key, value)]
            /\ UNCHANGED <<pending, direct, lastMut>>
    /\ UNCHANGED codec

RaftSet(key, value) ==
    LET command == SetCommand(key, value) IN
    /\ \/ /\ Commit(command, <<Set(key, value)>>, TRUE)
          /\ last' = Sent(Call("set", Leader, key, value, command, "none",
                          MutateResponse(command), MutateOutcome(MutateResponse(command))))
       \/ \E e \in ConsensusErrors :
            /\ last' = Sent(Call("set", Leader, key, value, command, e, Err(e),
                            MutateOutcome(Err(e))))
            /\ UNCHANGED <<store, pending, direct, lastMut>>
    /\ UNCHANGED codec

(* ------------------------------ the collaborator's calls of State ----- *)
\* The collaborator commits a command and the leader's State applies it.
\* ops holds the operation the command stands for (none when it is no Mutation).
Mutate(command, ops) ==
    /\ Commit(command, ops, FALSE)
    /\ last' = Call("mutate", Leader, <<>>, <<>>, command, "none",
                    MutateResponse(command), MutateResponse(command))
    /\ UNCHANGED codec

\* The operation some bytes stand for, if they decode to a Mutation.
Decoded(command) ==
    LET mutation == DeserializeMutation(command) IN
    IF mutation.ok THEN <<mutation.val>> ELSE <<>>

\* The follower's State applies the next committed command of the log.
FollowerApply ==
    /\ pending # <<>>
    /\ LET applied == StateMutate(Inst(Follower), Head(pending).cmd) IN
        /\ store' = [store EXCEPT ![Follower] = applied.store]
        /\ last' = Call("mutate", Follower, <<>>, <<>>, Head(pending).cmd, "none",
                        applied.res, applied.res)
    /\ pending' = Tail(pending)
    /\ UNCHANGED <<direct, lastMut, codec>>

\* The State of replica r applies a command while its store fails. What the
\* collaborator does with the replica afterwards is outside this component.
MutateStoreFails(r, command) ==
    LET applied == StateMutateOn(Inst(r), command, StoreError) IN
    /\ store' = [store EXCEPT ![r] = applied.store]
    /\ last' = Call("mutate", r, <<>>, <<>>, command, StoreError,
                    applied.res, applied.res)
    /\ UNCHANGED <<pending, direct, lastMut, codec>>

\* Mutations of other clients, committed and applied while a caller still
\* holds what an earlier call returned to it.
CommitElsewhere(m) ==
    /\ Commit(SerializeMutation(m), <<m>>, FALSE)
    /\ UNCHANGED <<last, codec>>

ApplyElsewhere ==
    /\ pending # <<>>
    /\ store' = [store EXCEPT
                    ![Follower] = StateMutate(Inst(Follower), Head(pending).cmd).store]
    /\ pending' = Tail(pending)
    /\ UNCHANGED <<direct, lastMut, last, codec>>

\* A variant of the read in which Get takes the key out of the store.
ReadConsuming(r, command) ==
    LET result == StateRead(Inst(r), command)
        read == DeserializeRead(command) IN
    /\ last' = Call("read", r, <<>>, <<>>, command, "none", result, result)
    /\ store' = IF read.ok /\ read.val.tag = "Get"
                THEN [store EXCEPT ![r] = StoreDelete(store[r], read.val.key)]
                ELSE store
    /\ UNCHANGED <<pending, direct, lastMut, codec>>

\* A variant of the read that runs on the follower while the next application
\* is in flight there: the key is already removed, the value not yet written.
ReadTorn(r, command) ==
    LET ops == IF pending = <<>> THEN <<>> ELSE Decoded(Head(pending).cmd)
        seen == IF r = Follower /\ ops # <<>>
                THEN StoreDelete(store[r], ops[1].key) ELSE store[r]
        result == StateRead([node |-> r, store |-> seen], command) IN
    /\ last' = Call("read", r, <<>>, <<>>, command, "none", result, result)
    /\ UNCHANGED <<store, pending, direct, lastMut, codec>>

\* A read the collaborator serves on replica r: any bytes.
Read(r, command) ==
    LET result == StateRead(Inst(r), command) IN
    /\ last' = Call("read", r, <<>>, <<>>, command, "none", result, result)
    /\ UNCHANGED <<store, pending, direct, lastMut, codec>>

ReadCommands == RawCommands \cup {SerializeRead(r) : r \in Reads}

(* ------------------------------ the codec on its own ------------------ *)
Serialize(kind, value) ==
    IF kind = "Mutation" THEN SerializeMutation(value) ELSE SerializeRead(value)
Deserialize(kind, bytes) ==
    IF kind = "Mutation" THEN DeserializeMutation(bytes) ELSE DeserializeRead(bytes)

CodecEncode ==
    /\ codec.phase = "value"
    /\ codec' = [codec EXCEPT !.phase = "encoded",
                              !.bytes = Serialize(codec.kind, codec.value)]
    /\ UNCHANGED <<store, pending, direct, lastMut, last>>

\* The bytes lose their tail on the way.
CodecTruncate ==
    /\ codec.phase = "encoded"
    /\ codec.bytes # <<>>
    /\ codec' = [codec EXCEPT !.bytes = SubSeq(codec.bytes, 1, Len(codec.bytes) - 1),
                              !.intact = FALSE]
    /\ UNCHANGED <<store, pending, direct, lastMut, last>>

CodecDecode ==
    /\ codec.phase = "encoded"
    /\ codec' = [codec EXCEPT !.phase = "decoded",
                              !.back = Deserialize(codec.kind, codec.bytes)]
    /\ UNCHANGED <<store, pending, direct, lastMut, last>>

(* ------------------------------ specifications ------------------------ *)
InitState ==
    /\ store = [r \in Replicas |-> EmptyStore]
    /\ pending = <<>>
    /\ direct = EmptyStore
    /\ lastMut = [k \in Keys |-> NoMut]
    /\ last = NoCall

Init == InitState /\ codec = CodecIdle

\* The state machine as the collaborator drives it.
Next ==
    \/ \E m \in Mutations : Mutate(SerializeMutation(m), <<m>>)
    \/ \E c \in RawCommands : Mutate(c, Decoded(c))
    \/ \E r \in Reads : Mutate(SerializeRead(r), Decoded(SerializeRead(r)))
    \/ FollowerApply
    \/ \E r \in Replicas, c \in ReadCommands : Read(r, c)

Spec == Init /\ [][Next]_vars

\* The adapter's callers, with the collaborator behind it.
NextRaft ==
    \/ \E k \in Keys : RaftDelete(k)
    \/ \E k \in Keys : RaftGet(k)
    \/ \E k \in Keys : RaftIterPrefix(k)
    \/ \E k \in Keys, v \in Values : RaftSet(k, v)
    \/ FollowerApply

SpecRaft == Init /\ [][NextRaft]_vars

\* The state machine over stores that may fail.
NextFault ==
    \/ \E m \in Mutations : Mutate(SerializeMutation(m), <<m>>)
    \/ FollowerApply
    \/ \E r \in Replicas, m \in Mutations : MutateStoreFails(r, SerializeMutation(m))
    \/ \E r \in Replicas, c \in RawCommands : MutateStoreFails(r, c)

SpecFault == Init /\ [][NextFault]_vars

\* A caller of iter_prefix going through the returned sequence while other
\* clients mutate.
NextIter ==
    \/ \E k \in Keys : RaftIterPrefix(k)
    \/ IterNext
    \/ \E m \in Mutations : CommitElsewhere(m)
    \/ ApplyElsewhere

SpecIter == Init /\ [][NextIter]_vars

\* Every Mutation and Read value through the codec.
InitCodec ==
    /\ InitState
    /\ \E kind \in {"Mutation", "Read"} :
         \E value \in (IF kind = "Mutation" THEN Mutations ELSE Reads) :
            codec = [CodecIdle EXCEPT !.phase = "value", !.kind = kind, !.value = value]

NextCodec == CodecEncode \/ CodecTruncate \/ CodecDecode

SpecCodec == InitCodec /\ [][NextCodec]_vars

(* ------------------------------ properties ---------------------------- *)
\* C1 (replay fidelity): after every prefix of a sequence of Set/Delete
\* operations, each encoded as a Mutation command and passed to State.mutate,
\* the store holds exactly what a fresh store holds after the same operations
\* were applied to it directly with set/delete.
ReplayFidelity == store[Leader] = direct

ReplayFidelityWitness ==
    /\ last.fn = "mutate" /\ last.node = Leader /\ last.out.ok
    /\ DeserializeMutation(last.cmd).val.tag = "Delete"
    /\ \E k \in Keys : lastMut[k].tag = "Set" /\ lastMut[k].value # <<>>
    /\ direct # EmptyStore
    /\ store[Leader] = direct

\* The follower's State fed the commands it has not applied yet, in log order.
RECURSIVE Replay(_, _)
Replay(self, q) ==
    IF q = <<>> THEN [store |-> self.store, results |-> <<>>]
    ELSE LET applied == StateMutate(self, Head(q).cmd)
             rest == Replay([self EXCEPT !.store = applied.store], Tail(q))
         IN [store |-> rest.store, results |-> <<applied.res>> \o rest.results]

Undecodable(call) ==
    \/ call.fn = "mutate" /\ ~DeserializeMutation(call.cmd).ok
    \/ call.fn = "read" /\ ~DeserializeRead(call.cmd).ok

\* C3 (malformed input safety): a State.mutate or State.read call given bytes
\* that do not decode to a Mutation, respectively a Read, returns the codec
\* error, carries no result payload, and leaves every store as it was.
MalformedSafety ==
    [][Undecodable(last') =>
        /\ last'.out = Err(CodecError)
        /\ store' = store]_vars

MalformedSafetyWitness ==
    /\ Undecodable(last)
    /\ last.fn = "mutate"
    /\ last.cmd # <<>>
    /\ last.out = Err(CodecError)
    /\ store[last.node] # EmptyStore

\* C4 (read frame): a State.read call, whatever its command bytes and whether
\* it succeeds or fails, leaves the store content as it was.
ReadFrame == [][last'.fn = "read" => store' = store]_vars

ReadFrameWitness ==
    /\ last.fn = "read" /\ last.out.ok
    /\ DeserializeRead(last.cmd).val.tag = "Get"
    /\ last.out.val = SerializeOption(Some(<<0>>))
    /\ store[last.node] # EmptyStore

StartsWith(k, p) == \E n \in 0..Len(k) : [i \in 1..n |-> k[i]] = p
Elements(f) == {f[i] : i \in DOMAIN f}
IsGetPrefix(call) ==
    /\ call.fn = "read"
    /\ DeserializeRead(call.cmd).ok
    /\ DeserializeRead(call.cmd).val.tag = "GetPrefix"

\* C5 (prefix correctness): State.read(GetPrefix(p)) returns exactly the pairs
\* of the store whose key starts with p, each once and with its current value,
\* in the order the unchanged store yields them.
PrefixCorrect ==
    IsGetPrefix(last) =>
        LET p == DeserializeRead(last.cmd).val.key
            s == store[last.node]
            pairs == DeserializePairs(last.out.val)
        IN /\ last.out.ok
           /\ pairs.ok
           /\ Elements(pairs.val) = {<<k, s[k]>> : k \in {x \in DOMAIN s : StartsWith(x, p)}}
           /\ Len(pairs.val) = Cardinality(Elements(pairs.val))
           /\ pairs.val = StoreIterPrefix(s, p)

PrefixCorrectWitness ==
    /\ IsGetPrefix(last)
    /\ DeserializeRead(last.cmd).val.key = <<0>>
    /\ DOMAIN store[last.node] = Keys
    /\ last.out.ok
    /\ Len(DeserializePairs(last.out.val).val) = 1

\* C9 (last write wins): on a replica that has applied the whole sequence,
\* State.read(GetPrefix("")) returns exactly one pair (k, v) for each key whose
\* most recent mutation is Set(k, v), and none for a key whose most recent
\* mutation is Delete(k) or that was never set.
LastWriteWins ==
    (/\ IsGetPrefix(last)
     /\ DeserializeRead(last.cmd).val.key = <<>>
     /\ (last.node = Leader \/ pending = <<>>)) =>
        LET pairs == DeserializePairs(last.out.val) IN
        /\ last.out.ok
        /\ pairs.ok
        /\ Elements(pairs.val) =
              {<<k, lastMut[k].value>> : k \in {x \in Keys : lastMut[x].tag = "Set"}}
        /\ Len(pairs.val) = Cardinality(Elements(pairs.val))

\* apply(Set(a, 1)); apply(Set(b, 2)); apply(Delete(a)); GetPrefix("") = [(b, 2)]
LastWriteWinsWitness ==
    /\ IsGetPrefix(last)
    /\ DeserializeRead(last.cmd).val.key = <<>>
    /\ last.node = Leader
    /\ lastMut[<<0>>].tag = "Delete"
    /\ lastMut[<<1>>] = Recorded(Set(<<1>>, <<0>>), FALSE)
    /\ lastMut[<<>>].tag = "None"
    /\ last.out = Ok(SerializePairs(<<(<<(<<1>>), (<<0>>)>>)>>))

AdapterCalls == {"get", "set", "delete", "iter_prefix"}

\* C6 (absence distinction): State.read(Get(k)) and the adapter's get(k) answer
\* a key that is not in the store with the absent marker, and a key last Set to
\* the empty byte sequence with a present empty value; the two answers differ,
\* as bytes on the wire and as decoded values.
AbsenceDistinct ==
    (last.fn = "get" /\ last.fail = "none") =>
        /\ last.key \notin DOMAIN store[Leader] =>
              /\ last.resp = Ok(SerializeOption(None))
              /\ last.out = Ok(None)
        /\ (lastMut[last.key].tag = "Set" /\ lastMut[last.key].value = <<>>) =>
              /\ last.resp.ok
              /\ last.resp.val # SerializeOption(None)
              /\ DeserializeOption(last.resp.val) # Ok(None)
              /\ last.out = Ok(Some(<<>>))
              /\ last.out # Ok(None)

AbsenceDistinctWitness ==
    /\ last.fn = "get" /\ last.fail = "none"
    /\ lastMut[last.key].tag = "Set" /\ lastMut[last.key].value = <<>>
    /\ last.out = Ok(Some(<<>>))
    /\ \E k \in Keys : lastMut[k].tag = "Delete"

\* C7 (write visibility): once the adapter's set(k, v) has returned
\* successfully and no later set or delete of k was committed, a successful
\* adapter get(k) returns v.
WriteVisibility ==
    (/\ last.fn = "get" /\ last.out.ok
     /\ lastMut[last.key].tag = "Set" /\ lastMut[last.key].acked) =>
        last.out.val = Some(lastMut[last.key].value)

WriteVisibilityWitness ==
    /\ last.fn = "get" /\ last.out.ok
    /\ lastMut[last.key] = Recorded(Set(last.key, <<0>>), TRUE)
    /\ last.out.val = Some(<<0>>)
    /\ \E k \in Keys \ {last.key} : lastMut[k].tag = "Set" /\ lastMut[k].value = <<>>

\* C8 (round-trip fidelity): decoding the bytes that encoding a Mutation or a
\* Read produced yields the original value, with the same case tag and the same
\* byte sequences, empty keys and empty values included.
RoundTrip ==
    (codec.phase = "decoded" /\ codec.intact) => codec.back = Ok(codec.value)

RoundTripWitness ==
    /\ codec.phase = "decoded" /\ codec.intact
    /\ codec.value = Set(<<>>, <<>>)
    /\ codec.back = Ok(Set(<<>>, <<>>))

\* C10 (collaborator failures are surfaced): when the collaborator's mutate or
\* read fails, each of get, set, delete and iter_prefix ends by returning that
\* same error to its caller.
FailureSurfaced ==
    (last.fn \in AdapterCalls /\ last.fail # "none") => last.out = Err(last.fail)

\* C11 (no retries): every adapter call sends exactly one request to the
\* collaborator, the command it encoded, also when that request fails; a set
\* or delete adds one entry to the log when it commits and none when it fails,
\* and a get or iter_prefix adds none.
NoRetries ==
    [][last'.fn \in AdapterCalls =>
        /\ last'.reqs = <<last'.cmd>>
        /\ Len(pending') = Len(pending) +
              (IF last'.fn \in {"set", "delete"} /\ last'.fail = "none" THEN 1 ELSE 0)]_vars

NoRetriesWitness ==
    /\ last.fn = "set" /\ last.fail = "Timeout"
    /\ last.out = Err("Timeout")
    /\ Len(last.reqs) = 1
    /\ pending = <<>>

\* C12 (no optimistic application): an adapter set or delete whose mutate
\* fails without committing changes no store on any replica; a store changes
\* only in a step in which State.mutate applies a committed command to it: the
\* leader's at the commit, the follower's when it applies the head of its log.
NoOptimisticApplication ==
    [][/\ (last'.fn \in {"set", "delete"} /\ last'.fail # "none") =>
            (store' = store /\ pending' = pending)
       /\ store' # store =>
            \/ /\ last'.fn \in {"set", "delete"} /\ last'.fail = "none"
               /\ Len(pending') = Len(pending) + 1
               /\ pending'[Len(pending')].cmd = last'.cmd
               /\ store' = [store EXCEPT
                               ![Leader] = StateMutate(Inst(Leader), last'.cmd).store]
            \/ /\ last'.fn = "mutate" /\ last'.node = Follower
               /\ pending # <<>>
               /\ last'.cmd = Head(pending).cmd
               /\ store' = [store EXCEPT
                               ![Follower] = StateMutate(Inst(Follower), last'.cmd).store]]_vars

NoOptimisticApplicationWitness ==
    /\ last.fn = "set" /\ last.fail = "NotLeader"
    /\ last.value = <<0>>
    /\ last.key \in DOMAIN store[Leader]
    /\ store[Leader][last.key] = <<>>
    /\ store[Follower] = store[Leader]

\* C13 (store failure in apply is surfaced): when the store's set or delete
\* fails during State.mutate, mutate returns the store's error, never the empty
\* success payload, and the application is aborted: the store keeps its content.
StoreFailureSurfaced ==
    [][(last'.fn = "mutate" /\ last'.fail = StoreError
            /\ DeserializeMutation(last'.cmd).ok) =>
        /\ last'.out = Err(StoreError)
        /\ store' = store]_vars

StoreFailureSurfacedWitness ==
    /\ last.fn = "mutate" /\ last.fail = StoreError
    /\ DeserializeMutation(last.cmd).ok
    /\ DeserializeMutation(last.cmd).val = Set(<<1>>, <<0>>)
    /\ last.out = Err(StoreError)
    /\ <<0>> \in DOMAIN store[last.node]
    /\ <<1>> \notin DOMAIN store[last.node]

\* C14 (empty success payload): every successful State.mutate call, for Set
\* and for Delete alike, returns the empty byte sequence, whatever the key, the
\* value and the content of the store before it.
EmptyPayload ==
    [][(last'.fn = "mutate" /\ last'.out.ok) => last'.out.val = <<>>]_vars

EmptyPayloadWitness ==
    /\ last.fn = "mutate" /\ last.node = Leader
    /\ last.out = Ok(<<>>)
    /\ DeserializeMutation(last.cmd).ok
    /\ DeserializeMutation(last.cmd).val = Set(<<1>>, <<>>)
    /\ pending # <<>>
    /\ <<1>> \in DOMAIN pending[Len(pending)].before
    /\ pending[Len(pending)].before[<<1>>] = <<0>>

\* The content of the store after each complete prefix of the committed log
\* that a replica can currently be at.
PrefixContents == {direct} \cup {pending[i].before : i \in DOMAIN pending}

\* C15 (consistent reads): with applications serialized in log order and no
\* read during an application, every State.read result equals that read
\* evaluated on the content after some complete prefix of the committed log.
ConsistentReads ==
    last.fn = "read" =>
        \E s \in PrefixContents :
            last.out = StateRead([node |-> last.node, store |-> s], last.cmd)

ConsistentReadsWitness ==
    /\ last.fn = "read" /\ last.node = Follower
    /\ last.cmd = SerializeRead(GetPrefix(<<>>))
    /\ pending # <<>>
    /\ last.out = StateRead([node |-> Follower, store |-> pending[1].before], last.cmd)
    /\ last.out # StateRead([node |-> Follower, store |-> direct], last.cmd)
    /\ pending[1].before # EmptyStore

\* C16 (materialized snapshot): the pairs the sequence returned by iter_prefix
\* yields are those of the single collaborator read response, in its order;
\* mutations committed and applied after iter_prefix returned do not change
\* them, and iterating sends no further request to the collaborator.
MaterializedSnapshot ==
    (last.fn = "iter_prefix" /\ last.out.ok) =>
        /\ last.resp.ok
        /\ DeserializePairs(last.resp.val).ok
        /\ Len(last.yielded) <= Len(DeserializePairs(last.resp.val).val)
        /\ last.yielded =
             SubSeq(DeserializePairs(last.resp.val).val, 1, Len(last.yielded))
        /\ last.reqs = <<last.cmd>>

MaterializedSnapshotWitness ==
    /\ last.fn = "iter_prefix" /\ last.out.ok
    /\ last.key = <<>>
    /\ Len(last.yielded) = 2
    /\ last.yielded = last.out.val
    /\ StoreIterPrefix(store[Leader], <<>>) = <<>>
    /\ store[Follower] = EmptyStore

\* C17 (command kinds are not confused): when State.mutate is given the bytes
\* that encode a Read command, Get(key) or GetPrefix(prefix), it fails with a
\* codec error and leaves the store content unchanged.
KindsNotConfused ==
    [][(last'.fn = "mutate" /\ \E r \in Reads : last'.cmd = SerializeRead(r)) =>
        /\ last'.out = Err(CodecError)
        /\ store' = store]_vars

\* C18 (apply touches only its own key): a successful State.mutate of Set(k, v)
\* or Delete(k) leaves the presence and the value of every other key as they
\* were; after Set(k, v) a Get(k) returns v, after Delete(k) it returns absent.
OwnKeyOnly ==
    [][(last'.fn = "mutate" /\ last'.out.ok) =>
        LET m == DeserializeMutation(last'.cmd).val
            n == last'.node
            after == [node |-> n, store |-> store'[n]] IN
        /\ DOMAIN store'[n] \subseteq Keys
        /\ \A k \in Keys \ {m.key} : StoreGet(store'[n], k) = StoreGet(store[n], k)
        /\ StateRead(after, SerializeRead(Get(m.key))) =
             Ok(SerializeOption(IF m.tag = "Set" THEN Some(m.value) ELSE None))]_vars

OwnKeyOnlyWitness ==
    /\ last.fn = "mutate" /\ last.node = Leader /\ last.out.ok
    /\ DeserializeMutation(last.cmd).val = Delete(<<>>)
    /\ pending # <<>>
    /\ DOMAIN pending[Len(pending)].before = Keys
    /\ DOMAIN store[Leader] = {<<0>>, <<1>>}

\* C19 (single mutations are idempotent): every State.mutate of a Mutation
\* command succeeds with the empty payload, and applying the same command once
\* more right after it succeeds again and leaves the store as the first
\* application left it; Delete(k) of a key that is not in the store leaves the
\* store unchanged.
Idempotent ==
    [][(last'.fn = "mutate" /\ DeserializeMutation(last'.cmd).ok) =>
        LET m == DeserializeMutation(last'.cmd).val
            n == last'.node
            again == StateMutate([node |-> n, store |-> store'[n]], last'.cmd) IN
        /\ last'.out = Ok(<<>>)
        /\ again.res = Ok(<<>>)
        /\ again.store = store'[n]
        /\ (m.tag = "Delete" /\ m.key \notin DOMAIN store[n]) => store'[n] = store[n]]_vars

IdempotentWitness ==
    /\ last.fn = "mutate" /\ last.node = Leader
    /\ last.out = Ok(<<>>)
    /\ DeserializeMutation(last.cmd).val = Delete(<<1>>)
    /\ pending # <<>>
    /\ pending[Len(pending)].before = store[Leader]
    /\ DOMAIN store[Leader] = {<<>>, <<0>>}

====
